---- MODULE Spec2Model ----
(***************************************************************************)
(* Model of clippy_lints/src/loops/while_pop_unwrap.rs: the lint that      *)
(* recognises                                                              *)
(*     while !v.is_empty() { let x = v.pop().unwrap(); .. }                *)
(*     while !v.is_empty() { f(.., v.pop().unwrap(), ..); .. }             *)
(* and suggests `while let Some(..) = v.pop()`.                            *)
(*                                                                         *)
(* The HIR of one `while` loop is the input.  Source text is a sequence of *)
(* tokens and a span is a pair <<lo, hi>> of token positions in it.        *)
(***************************************************************************)
EXTENDS Integers, Sequences, FiniteSets, TLC

VARIABLES full_cond, body, loop_span, source, diag, fixed, pc

vars == <<full_cond, body, loop_span, source, diag, fixed, pc>>

\* ------------------------------------------------------------------ bounds
\* Longest argument list of the call in the first statement.
MaxArgs == 2
\* Most statements that follow the first statement of the loop body.
MaxRest == 1
\* Longest initial content of a vector when the loops are run.
MaxVecLen == 3

\* ------------------------------------------------------- resolved def paths
\* type_dependent_def_id(..) = None
NoDefId == ""
VEC_POP == "alloc::vec::Vec::pop"
VEC_IS_EMPTY == "alloc::vec::Vec::is_empty"
OPTION_UNWRAP == "core::option::Option::unwrap"
OPTION_EXPECT == "core::option::Option::expect"
\* Other methods a call of the same surface name can resolve to.
VEC_LEN == "alloc::vec::Vec::len"
HEAP_POP == "alloc::collections::binary_heap::BinaryHeap::pop"
STR_IS_EMPTY == "core::str::is_empty"
RESULT_UNWRAP == "core::result::Result::unwrap"
OTHER_METHOD == "crate::Obj::m"

\* -------------------------------------------------------------- HIR nodes
NoSpan == <<0, 0>>

Node(k, n, r, s, a) ==
    [kind |-> k, name |-> n, res |-> r, sub |-> s, args |-> a, span |-> NoSpan]

Path(n) == Node("Path", n, NoDefId, <<>>, <<>>)
Lit(n) == Node("Lit", n, NoDefId, <<>>, <<>>)
Field(base, n) == Node("Field", n, NoDefId, <<base>>, <<>>)
MethodCall(recv, n, r, a) == Node("MethodCall", n, r, <<recv>>, a)
Call(f, a) == Node("Call", "", NoDefId, <<Path(f)>>, a)
Unary(op, e) == Node("Unary", op, NoDefId, <<e>>, <<>>)
Binary(op, l, r) == Node("Binary", op, NoDefId, <<l, r>>, <<>>)

Pat(n, refut) == [name |-> n, refutable |-> refut, span |-> NoSpan]

Stmt(k, p, i, el, e) ==
    [kind |-> k, pat |-> p, init |-> i, els |-> el, expr |-> e, span |-> NoSpan]

Local(p, i, el) == Stmt("Local", <<p>>, i, el, <<>>)
Semi(e) == Stmt("Semi", <<>>, <<>>, "", <<e>>)
Item == Stmt("Item", <<>>, <<>>, "", <<>>)

Block(ss, t) == [kind |-> "Block", stmts |-> ss, tail |-> t, span |-> NoSpan]

\* ------------------------------------------------------------ source text
RECURSIVE Text(_), ArgsText(_)
Text(e) ==
    CASE e.kind \in {"Path", "Lit"} -> <<e.name>>
      [] e.kind = "Field" -> Text(e.sub[1]) \o <<".", e.name>>
      [] e.kind = "MethodCall" ->
            Text(e.sub[1]) \o <<".", e.name, "(">> \o ArgsText(e.args) \o <<")">>
      [] e.kind = "Call" -> Text(e.sub[1]) \o <<"(">> \o ArgsText(e.args) \o <<")">>
      [] e.kind = "Unary" -> <<e.name>> \o Text(e.sub[1])
      [] e.kind = "Binary" -> Text(e.sub[1]) \o <<e.name>> \o Text(e.sub[2])

ArgsText(args) ==
    IF args = <<>> THEN <<>>
    ELSE IF Len(args) = 1 THEN Text(args[1])
    ELSE Text(args[1]) \o <<",">> \o ArgsText(Tail(args))

Width(e) == Len(Text(e))

PatText(p) == IF p.refutable THEN <<"Some", "(", p.name, ")">> ELSE <<p.name>>

StmtText(s) ==
    CASE s.kind = "Local" ->
            <<"let">> \o PatText(s.pat[1])
            \o (IF s.init = <<>> THEN <<>> ELSE <<"=">> \o Text(s.init[1]))
            \o (IF s.els = "" THEN <<>> ELSE <<"else", "{", s.els, "}">>)
            \o <<";">>
      [] s.kind = "Semi" -> Text(s.expr[1]) \o <<";">>
      [] s.kind = "Expr" -> Text(s.expr[1])
      [] s.kind = "Item" -> <<"fn", "g", "(", ")", "{", "}">>

RECURSIVE StmtsText(_)
StmtsText(ss) == IF ss = <<>> THEN <<>> ELSE StmtText(ss[1]) \o StmtsText(Tail(ss))

BlockText(b) ==
    <<"{">> \o StmtsText(b.stmts)
    \o (IF b.tail = <<>> THEN <<>> ELSE Text(b.tail[1])) \o <<"}">>

\* -------------------------------------------------- spans (token positions)
RECURSIVE Place(_, _), PlaceArgs(_, _)
Place(e, lo) ==
    LET sp == <<lo, lo + Width(e) - 1>> IN
    CASE e.kind \in {"Path", "Lit"} -> [e EXCEPT !.span = sp]
      [] e.kind = "Field" -> [e EXCEPT !.span = sp, !.sub = <<Place(e.sub[1], lo)>>]
      [] e.kind = "MethodCall" ->
            [e EXCEPT !.span = sp,
                      !.sub = <<Place(e.sub[1], lo)>>,
                      !.args = PlaceArgs(e.args, lo + Width(e.sub[1]) + 3)]
      [] e.kind = "Call" ->
            [e EXCEPT !.span = sp,
                      !.sub = <<Place(e.sub[1], lo)>>,
                      !.args = PlaceArgs(e.args, lo + Width(e.sub[1]) + 1)]
      [] e.kind = "Unary" -> [e EXCEPT !.span = sp, !.sub = <<Place(e.sub[1], lo + 1)>>]
      [] e.kind = "Binary" ->
            [e EXCEPT !.span = sp,
                      !.sub = <<Place(e.sub[1], lo),
                                Place(e.sub[2], lo + Width(e.sub[1]) + 1)>>]

PlaceArgs(args, lo) ==
    IF args = <<>> THEN <<>>
    ELSE <<Place(args[1], lo)>> \o PlaceArgs(Tail(args), lo + Width(args[1]) + 1)

PlaceStmt(s, lo) ==
    LET sp == <<lo, lo + Len(StmtText(s)) - 1>> IN
    CASE s.kind = "Local" ->
            LET pw == Len(PatText(s.pat[1])) IN
            [s EXCEPT !.span = sp,
                      !.pat = <<[s.pat[1] EXCEPT !.span = <<lo + 1, lo + pw>>]>>,
                      !.init = IF s.init = <<>> THEN <<>>
                               ELSE <<Place(s.init[1], lo + pw + 2)>>]
      [] s.kind \in {"Semi", "Expr"} ->
            [s EXCEPT !.span = sp, !.expr = <<Place(s.expr[1], lo)>>]
      [] s.kind = "Item" -> [s EXCEPT !.span = sp]

RECURSIVE PlaceStmts(_, _)
PlaceStmts(ss, lo) ==
    IF ss = <<>> THEN <<>>
    ELSE <<PlaceStmt(ss[1], lo)>> \o PlaceStmts(Tail(ss), lo + Len(StmtText(ss[1])))

PlaceBlock(b, lo) ==
    [b EXCEPT !.span = <<lo, lo + Len(BlockText(b)) - 1>>,
              !.stmts = PlaceStmts(b.stmts, lo + 1),
              !.tail = IF b.tail = <<>> THEN <<>>
                       ELSE <<Place(b.tail[1], lo + 1 + Len(StmtsText(b.stmts)))>>]

\* `while <cond> <block>`: the loop as higher::While hands it to check.  The
\* loop span is the span of the header, `while <cond>`.
WhileText(c, b) == <<"while">> \o Text(c) \o BlockText(b)

WhileLoop(c, b) ==
    [cond |-> Place(c, 2),
     body |-> PlaceBlock(b, 2 + Width(c)),
     span |-> <<1, 1 + Width(c)>>,
     source |-> WhileText(c, b)]

\* -------------------------------------------------------- clippy_utils
\* SpanlessEq::eq_expr: the two expressions have the same shape and equal
\* sub-expressions; spans and resolutions are not compared.
RECURSIVE eq_expr(_, _), eq_exprs(_, _)
eq_expr(l, r) ==
    /\ l.kind = r.kind
    /\ l.name = r.name
    /\ eq_exprs(l.sub, r.sub)
    /\ eq_exprs(l.args, r.args)

eq_exprs(ls, rs) ==
    /\ Len(ls) = Len(rs)
    /\ \A i \in 1..Len(ls) : eq_expr(ls[i], rs[i])

\* snippet(cx, span, default): the source text of the span, or the default
\* when the span lies outside the source.
snippet(span, default) ==
    IF 1 <= span[1] /\ span[1] <= span[2] /\ span[2] <= Len(source)
    THEN SubSeq(source, span[1], span[2])
    ELSE default

match_def_path(id, path) == id = path

\* cx.typeck_results().type_dependent_def_id(expr.hir_id)
type_dependent_def_id(expr) == expr.res

\* span_lint_and_then + multispan_sugg_with_applicability: one diagnostic with
\* one multi-part suggestion.
Diagnostic(sp, sugg) ==
    [lint |-> "WHILE_POP_UNWRAP",
     span |-> sp,
     msg |-> "you seem to be trying to pop elements from a Vec in a loop",
     help |-> "consider using a while..let loop",
     applicability |-> "MachineApplicable",
     sugg |-> sugg]

\* ------------------------------------------------------ while_pop_unwrap.rs
PopStmtLocal(pat) == [tag |-> "Local", pat |-> <<pat>>]
PopStmtAnonymous == [tag |-> "Anonymous", pat |-> <<>>]

\* Faulty variant: the replacement of the pop is attached to the loop span.
report_lint_OneSpan(pop_span, pop_stmt_kind, loopSpan, receiver_span) ==
    LET pat == IF pop_stmt_kind.tag = "Local"
               THEN snippet(pop_stmt_kind.pat[1].span, <<"..">>)
               ELSE <<"element">>
        pop_replacement == IF pop_stmt_kind.tag = "Local" THEN <<>> ELSE <<"element">>
        loop_replacement ==
            <<"while", "let", "Some", "(">> \o pat \o <<")", "=">>
            \o snippet(receiver_span, <<"..">>) \o <<".", "pop", "(", ")">>
    IN  <<Diagnostic(pop_span,
                     <<<<loopSpan, loop_replacement>>, <<loopSpan, pop_replacement>>>>)>>

report_lint(pop_span, pop_stmt_kind, loopSpan, receiver_span) ==
    LET pat == IF pop_stmt_kind.tag = "Local"
               THEN snippet(pop_stmt_kind.pat[1].span, <<"..">>)
               ELSE <<"element">>
        pop_replacement == IF pop_stmt_kind.tag = "Local" THEN <<>> ELSE <<"element">>
        loop_replacement ==
            <<"while", "let", "Some", "(">> \o pat \o <<")", "=">>
            \o snippet(receiver_span, <<"..">>) \o <<".", "pop", "(", ")">>
    IN  <<Diagnostic(pop_span,
                     <<<<loopSpan, loop_replacement>>, <<pop_span, pop_replacement>>>>)>>

\* The name a method of a def path is called by.
SurfaceName(method) ==
    CASE method = VEC_POP -> "pop"
      [] method = VEC_IS_EMPTY -> "is_empty"
      [] method = OPTION_UNWRAP -> "unwrap"
      [] method = OPTION_EXPECT -> "expect"
      [] OTHER -> ""

\* Faulty variant: without a resolution the call is matched by its name.
match_method_call_ByName(expr, method) ==
    IF expr.kind = "MethodCall"
    THEN IF expr.res # NoDefId THEN expr.res = method
         ELSE expr.name = SurfaceName(method)
    ELSE FALSE

match_method_call(expr, method) ==
    IF expr.kind = "MethodCall" /\ type_dependent_def_id(expr) # NoDefId
    THEN match_def_path(type_dependent_def_id(expr), method)
    ELSE FALSE

\* Faulty variant: the receivers of pop and is_empty are not compared.
is_vec_pop_unwrap_AnyReceiver(expr, is_empty_recv) ==
    /\ (match_method_call(expr, OPTION_UNWRAP) \/ match_method_call(expr, OPTION_EXPECT))
    /\ expr.kind = "MethodCall"
    /\ match_method_call(expr.sub[1], VEC_POP)
    /\ expr.sub[1].kind = "MethodCall"

\* Faulty variant: Option::expect is not recognised.
is_vec_pop_unwrap_UnwrapOnly(expr, is_empty_recv) ==
    IF /\ match_method_call(expr, OPTION_UNWRAP)
       /\ expr.kind = "MethodCall"
       /\ match_method_call(expr.sub[1], VEC_POP)
       /\ expr.sub[1].kind = "MethodCall"
    THEN eq_expr(expr.sub[1].sub[1], is_empty_recv)
    ELSE FALSE

is_vec_pop_unwrap(expr, is_empty_recv) ==
    IF /\ (match_method_call(expr, OPTION_UNWRAP) \/ match_method_call(expr, OPTION_EXPECT))
       /\ expr.kind = "MethodCall"
       /\ match_method_call(expr.sub[1], VEC_POP)
       /\ expr.sub[1].kind = "MethodCall"
    THEN eq_expr(expr.sub[1].sub[1], is_empty_recv)
    ELSE FALSE

\* Faulty variant: the span of the initializer is reported, not the statement's.
check_local_InitSpan(stmt, is_empty_recv, loopSpan) ==
    IF /\ stmt.kind = "Local"
       /\ stmt.init # <<>>
       /\ is_vec_pop_unwrap(stmt.init[1], is_empty_recv)
    THEN report_lint(stmt.init[1].span, PopStmtLocal(stmt.pat[1]), loopSpan,
                     is_empty_recv.span)
    ELSE <<>>

check_local(stmt, is_empty_recv, loopSpan) ==
    IF /\ stmt.kind = "Local"
       /\ stmt.init # <<>>
       /\ is_vec_pop_unwrap(stmt.init[1], is_empty_recv)
    THEN report_lint(stmt.span, PopStmtLocal(stmt.pat[1]), loopSpan, is_empty_recv.span)
    ELSE <<>>

\* Faulty variant: the last matching argument is taken.
find_offending_Last(args, is_empty_recv) ==
    LET hits == {i \in 1..Len(args) : is_vec_pop_unwrap(args[i], is_empty_recv)}
    IN  IF hits = {} THEN <<>>
        ELSE <<args[CHOOSE i \in hits : \A j \in hits : i >= j].span>>

\* args.iter().find_map(..): the first argument that is a pop-unwrap.
find_offending(args, is_empty_recv) ==
    LET hits == {i \in 1..Len(args) : is_vec_pop_unwrap(args[i], is_empty_recv)}
    IN  IF hits = {} THEN <<>>
        ELSE <<args[CHOOSE i \in hits : \A j \in hits : i <= j].span>>

\* Faulty variant: the span of the whole call is reported, not the argument's.
check_call_arguments_WholeCall(stmt, is_empty_recv, loopSpan) ==
    IF /\ stmt.kind \in {"Semi", "Expr"}
       /\ stmt.expr[1].kind \in {"MethodCall", "Call"}
    THEN LET offending_arg == find_offending(stmt.expr[1].args, is_empty_recv)
         IN  IF offending_arg # <<>>
             THEN report_lint(stmt.expr[1].span, PopStmtAnonymous, loopSpan,
                              is_empty_recv.span)
             ELSE <<>>
    ELSE <<>>

check_call_arguments(stmt, is_empty_recv, loopSpan) ==
    IF /\ stmt.kind \in {"Semi", "Expr"}
       /\ stmt.expr[1].kind \in {"MethodCall", "Call"}
    THEN LET offending_arg == find_offending(stmt.expr[1].args, is_empty_recv)
         IN  IF offending_arg # <<>>
             THEN report_lint(offending_arg[1], PopStmtAnonymous, loopSpan,
                              is_empty_recv.span)
             ELSE <<>>
    ELSE <<>>

\* Faulty variant: the last statement of the body is inspected, not the first.
check_LastStmt(fullCond, bodyExpr, loopSpan) ==
    IF /\ fullCond.kind = "Unary" /\ fullCond.name = "!"
       /\ fullCond.sub[1].kind = "MethodCall"
       /\ match_method_call(fullCond.sub[1], VEC_IS_EMPTY)
       /\ bodyExpr.kind = "Block"
       /\ bodyExpr.stmts # <<>>
    THEN LET is_empty_recv == fullCond.sub[1].sub[1]
             stmt == bodyExpr.stmts[Len(bodyExpr.stmts)]
         IN  check_local(stmt, is_empty_recv, loopSpan)
             \o check_call_arguments(stmt, is_empty_recv, loopSpan)
    ELSE <<>>

\* Faulty variant: the guard is taken with or without its negation.
check_AnyPolarity(fullCond, bodyExpr, loopSpan) ==
    LET cond == IF fullCond.kind = "Unary" THEN fullCond.sub[1] ELSE fullCond IN
    IF /\ cond.kind = "MethodCall"
       /\ match_method_call(cond, VEC_IS_EMPTY)
       /\ bodyExpr.kind = "Block"
       /\ bodyExpr.stmts # <<>>
    THEN LET is_empty_recv == cond.sub[1]
             stmt == bodyExpr.stmts[1]
         IN  check_local(stmt, is_empty_recv, loopSpan)
             \o check_call_arguments(stmt, is_empty_recv, loopSpan)
    ELSE <<>>

check(fullCond, bodyExpr, loopSpan) ==
    IF /\ fullCond.kind = "Unary" /\ fullCond.name = "!"
       /\ fullCond.sub[1].kind = "MethodCall"
       /\ match_method_call(fullCond.sub[1], VEC_IS_EMPTY)
       /\ bodyExpr.kind = "Block"
       /\ bodyExpr.stmts # <<>>
    THEN LET is_empty_recv == fullCond.sub[1].sub[1]
             stmt == bodyExpr.stmts[1]
         IN  check_local(stmt, is_empty_recv, loopSpan)
             \o check_call_arguments(stmt, is_empty_recv, loopSpan)
    ELSE <<>>

\* --------------------------------------------------- applying a suggestion
Overlap(s, t) == s[1] <= t[2] /\ t[1] <= s[2]

Splice(src, span, rep) ==
    SubSeq(src, 1, span[1] - 1) \o rep \o SubSeq(src, span[2] + 1, Len(src))

\* The parts of one suggestion are applied together, the later span first.
ApplyParts(src, parts) ==
    LET p == parts[1]
        q == parts[2]
    IN  IF p[1][1] <= q[1][1]
        THEN Splice(Splice(src, q[1], q[2]), p[1], p[2])
        ELSE Splice(Splice(src, p[1], p[2]), q[1], q[2])

\* ----------------------------------------------------------------- inputs
RecvA == Path("a")
RecvB == Path("b")
RecvSV == Field(Path("s"), "v")

PopOf(recv, popRes) == MethodCall(recv, "pop", popRes, <<>>)
UnwrapOf(e, res) == MethodCall(e, "unwrap", res, <<>>)
ExpectOf(e, res) == MethodCall(e, "expect", res, <<Lit("msg")>>)

PopUnwrapA == UnwrapOf(PopOf(RecvA, VEC_POP), OPTION_UNWRAP)
PopExpectA == ExpectOf(PopOf(RecvA, VEC_POP), OPTION_EXPECT)
PopUnwrapB == UnwrapOf(PopOf(RecvB, VEC_POP), OPTION_UNWRAP)
PopUnwrapSV == UnwrapOf(PopOf(RecvSV, VEC_POP), OPTION_UNWRAP)
BarePopA == PopOf(RecvA, VEC_POP)
LenA == MethodCall(RecvA, "len", VEC_LEN, <<>>)

\* Arguments that appear in argument lists of every length.
ArgExprs == {PopUnwrapA, PopUnwrapB, LenA, Path("element")}

\* Every expression tried as the initializer of the local and as a sole
\* argument: the above, and the near misses of the pop-unwrap shape.
Candidates ==
    ArgExprs \cup
    { PopExpectA, PopUnwrapSV, BarePopA, Lit("0"),
      UnwrapOf(PopOf(RecvA, NoDefId), OPTION_UNWRAP),
      UnwrapOf(PopOf(RecvA, VEC_POP), NoDefId),
      UnwrapOf(PopOf(RecvA, HEAP_POP), OPTION_UNWRAP),
      UnwrapOf(PopOf(RecvA, OTHER_METHOD), RESULT_UNWRAP),
      UnwrapOf(Path("o"), OPTION_UNWRAP) }

RECURSIVE SeqsOfLen(_, _)
SeqsOfLen(S, n) ==
    IF n = 0 THEN {<<>>}
    ELSE {<<x>> \o t : x \in S, t \in SeqsOfLen(S, n - 1)}

SeqsUpTo(S, n) == UNION {SeqsOfLen(S, k) : k \in 0..n}

ArgLists ==
    (SeqsUpTo(ArgExprs, MaxArgs) \ {<<>>}) \cup {<<c>> : c \in Candidates}

CallExprs ==
    {Call("f", a) : a \in ArgLists}
    \cup {MethodCall(Path("o"), "m", OTHER_METHOD, a) : a \in ArgLists}
    \cup {MethodCall(PopUnwrapA, "m", OTHER_METHOD, a) : a \in ArgLists}

LocalShapes ==
    {<<Pat("x", FALSE), "">>} \cup
    {<<Pat("x", TRUE), el>> : el \in {"continue", "break", "return"}}

FirstStmts ==
    {Semi(e) : e \in CallExprs}
    \cup {Local(sh[1], i, sh[2]) :
            sh \in LocalShapes, i \in {<<c>> : c \in Candidates} \cup {<<>>}}
    \cup {Item, Semi(Path("element"))}

RestStmts == {Semi(Call("use", <<Path("x")>>)), Local(Pat("x", FALSE), <<PopUnwrapA>>, "")}

Tails == {<<>>, <<Call("f", <<PopUnwrapA>>)>>}

Bodies ==
    {Block(<<>>, t) : t \in Tails}
    \cup {Block(<<s>> \o r, t) :
            s \in FirstStmts, r \in SeqsUpTo(RestStmts, MaxRest), t \in Tails}

IsEmptyOf(recv, res) == MethodCall(recv, "is_empty", res, <<>>)

Guards ==
    { Unary("!", IsEmptyOf(RecvA, VEC_IS_EMPTY)),
      Unary("!", IsEmptyOf(RecvSV, VEC_IS_EMPTY)),
      Unary("!", IsEmptyOf(RecvA, NoDefId)),
      Unary("!", IsEmptyOf(RecvA, STR_IS_EMPTY)),
      IsEmptyOf(RecvA, VEC_IS_EMPTY),
      Binary("&&", Unary("!", IsEmptyOf(RecvA, VEC_IS_EMPTY)), Path("c")),
      Unary("!", Call("is_empty", <<RecvA>>)) }

\* ------------------------------------------------------------ the machine
Loops == {WhileLoop(c, b) : c \in Guards, b \in Bodies}

Init ==
    \E w \in Loops :
        /\ full_cond = w.cond
        /\ body = w.body
        /\ loop_span = w.span
        /\ source = w.source
        /\ diag = <<>>
        /\ fixed = <<>>
        /\ pc = "start"

\* LateLintPass: the loops pass calls check on the loop.
Check ==
    /\ pc = "start"
    /\ diag' = diag \o check(full_cond, body, loop_span)
    /\ pc' = "checked"
    /\ UNCHANGED <<full_cond, body, loop_span, source, fixed>>

\* A machine-applicable suggestion is applied to the source.
ApplySuggestion ==
    /\ pc = "checked"
    /\ diag # <<>>
    /\ ~Overlap(diag[1].sugg[1][1], diag[1].sugg[2][1])
    /\ fixed' = ApplyParts(source, diag[1].sugg)
    /\ pc' = "fixed"
    /\ UNCHANGED <<full_cond, body, loop_span, source, diag>>

Next == Check \/ ApplySuggestion

Spec == Init /\ [][Next]_vars

\* ------------------------------------------------- vocabulary of the claims
Checked == pc # "start"

\* The guard is `!R.is_empty()` with is_empty resolved to Vec::is_empty.
GuardOk ==
    /\ full_cond.kind = "Unary" /\ full_cond.name = "!"
    /\ full_cond.sub[1].kind = "MethodCall"
    /\ full_cond.sub[1].res = VEC_IS_EMPTY

GuardRecv == full_cond.sub[1].sub[1]

HasFirst == body.stmts # <<>>
First == body.stmts[1]

\* Two expressions are written with the same tokens.
SameText(l, r) == Text(l) = Text(r)

\* e is `<v>.pop().unwrap()` or `<v>.pop().expect(..)`, by what the calls
\* resolve to.
PopUnwrapShape(e, v) ==
    /\ e.kind = "MethodCall" /\ e.res \in {OPTION_UNWRAP, OPTION_EXPECT}
    /\ e.sub[1].kind = "MethodCall" /\ e.sub[1].res = VEC_POP
    /\ SameText(e.sub[1].sub[1], v)

MatchingLocal ==
    /\ GuardOk /\ HasFirst
    /\ First.kind = "Local" /\ First.init # <<>>
    /\ PopUnwrapShape(First.init[1], GuardRecv)

FirstIsCall ==
    /\ HasFirst
    /\ First.kind \in {"Semi", "Expr"}
    /\ First.expr[1].kind \in {"Call", "MethodCall"}

CallArgs == IF FirstIsCall THEN First.expr[1].args ELSE <<>>

MatchingArgs ==
    IF GuardOk
    THEN {i \in 1..Len(CallArgs) : PopUnwrapShape(CallArgs[i], GuardRecv)}
    ELSE {}

FirstMatchingArg == CHOOSE i \in MatchingArgs : \A j \in MatchingArgs : i <= j

\* The expressions of the first statement that the lint looks at.
Inspected ==
    IF ~HasFirst THEN {}
    ELSE IF First.kind = "Local" THEN {First.init[i] : i \in 1..Len(First.init)}
    ELSE {CallArgs[i] : i \in 1..Len(CallArgs)}

\* The expression a diagnostic is about: the initializer of the local when
\* the diagnostic's span is the local statement, else the argument at the span.
Reported(d) ==
    IF First.kind = "Local" /\ d.span = First.span
    THEN {First.init[i] : i \in 1..Len(First.init)}
    ELSE {e \in Inspected : e.span = d.span}

HeaderText(pat, v) ==
    <<"while", "let", "Some", "(">> \o pat \o <<")", "=">> \o Text(v)
    \o <<".", "pop", "(", ")">>

RestText ==
    StmtsText(Tail(body.stmts))
    \o (IF body.tail = <<>> THEN <<>> ELSE Text(body.tail[1])) \o <<"}">>

\* --------------------------------------------------------------- claims
\* C1: a Finding is emitted only if the receiver of the Vec pop call in the
\* first statement of the body is structurally equal to the receiver of the
\* is_empty call of the guard; with the guard on `a`, neither
\* `let x = b.pop().unwrap();` nor `f(b.pop().unwrap());` yields a Finding.
C1_SameReceiver ==
    Checked =>
      /\ \A i \in 1..Len(diag) :
            /\ GuardOk /\ HasFirst
            /\ Reported(diag[i]) # {}
            /\ \A e \in Reported(diag[i]) :
                  /\ e.kind = "MethodCall" /\ e.sub[1].kind = "MethodCall"
                  /\ e.sub[1].name = "pop"
                  /\ SameText(e.sub[1].sub[1], GuardRecv)
      /\ ( /\ GuardOk /\ HasFirst /\ SameText(GuardRecv, RecvA)
           /\ \/ First.kind = "Local" /\ First.init # <<>>
                 /\ SameText(First.init[1], PopUnwrapB)
              \/ FirstIsCall /\ Len(CallArgs) = 1 /\ SameText(CallArgs[1], PopUnwrapB) )
         => diag = <<>>

C1_Witness ==
    /\ pc = "checked" /\ diag # <<>>
    /\ GuardOk /\ GuardRecv.kind = "Field"

\* C2: local-binding form: exactly one Finding; its span is the span of the
\* whole local statement, the header is replaced by
\* `while let Some(<pat>) = v.pop()` and the statement by the empty text.
C2_LocalForm ==
    (Checked /\ MatchingLocal) =>
      /\ Len(diag) = 1
      /\ diag[1].span = First.span
      /\ diag[1].sugg =
            << <<loop_span, HeaderText(PatText(First.pat[1]), GuardRecv)>>,
               <<First.span, <<>>>> >>
      /\ pc = "fixed" =>
            fixed = HeaderText(PatText(First.pat[1]), GuardRecv) \o <<"{">> \o RestText

C2_Witness ==
    /\ pc = "fixed" /\ MatchingLocal
    /\ Len(body.stmts) > 1 /\ GuardRecv.kind = "Field"

\* C3: inline-argument form: the header is replaced by
\* `while let Some(element) = v.pop()`, the only other edit replaces exactly
\* the offending argument by `element`, and the callee, the method receiver
\* and the other arguments are outside every edit and stay as written.
C3_InlineForm ==
    (Checked /\ FirstIsCall /\ MatchingArgs # {}) =>
      LET call == First.expr[1]
          k == FirstMatchingArg
          edited == [First EXCEPT !.expr = <<[call EXCEPT !.args[k] = Path("element")]>>]
      IN
      /\ Len(diag) = 1
      /\ diag[1].sugg =
            << <<loop_span, HeaderText(<<"element">>, GuardRecv)>>,
               <<CallArgs[k].span, <<"element">>>> >>
      /\ \A p \in 1..Len(diag[1].sugg) :
            /\ ~Overlap(diag[1].sugg[p][1], call.sub[1].span)
            /\ \A j \in 1..Len(CallArgs) :
                  j # k => ~Overlap(diag[1].sugg[p][1], CallArgs[j].span)
      /\ pc = "fixed" =>
            fixed = HeaderText(<<"element">>, GuardRecv) \o <<"{">>
                    \o StmtText(edited) \o RestText

C3_Witness ==
    /\ pc = "fixed" /\ FirstIsCall /\ MatchingArgs # {}
    /\ First.expr[1].kind = "MethodCall"
    /\ Len(CallArgs) > 1 /\ FirstMatchingArg > 1

\* C5: only the first statement of the body is inspected: when it is neither
\* a matching local nor a call with a matching argument there is no Finding,
\* whatever the later statements and the trailing expression are.
C5_DepthLimit ==
    (Checked /\ ~MatchingLocal /\ MatchingArgs = {}) => diag = <<>>

C5_Witness ==
    /\ pc = "checked" /\ GuardOk /\ ~MatchingLocal /\ MatchingArgs = {}
    /\ Len(body.stmts) > 1
    /\ body.stmts[2].kind = "Local"
    /\ PopUnwrapShape(body.stmts[2].init[1], GuardRecv)
    /\ body.tail # <<>>
    /\ diag = <<>>

\* The loop with every `.unwrap()` written as `.expect("msg")`.
RECURSIVE ToExpect(_)
ToExpect(e) ==
    LET subs == IF e.sub = <<>> THEN <<>> ELSE [i \in 1..Len(e.sub) |-> ToExpect(e.sub[i])]
        as == IF e.args = <<>> THEN <<>> ELSE [i \in 1..Len(e.args) |-> ToExpect(e.args[i])]
    IN  IF e.kind = "MethodCall" /\ e.res = OPTION_UNWRAP
        THEN [e EXCEPT !.name = "expect", !.res = OPTION_EXPECT,
                       !.sub = subs, !.args = <<Lit("msg")>>]
        ELSE [e EXCEPT !.sub = subs, !.args = as]

StmtToExpect(st) ==
    [st EXCEPT !.init = IF st.init = <<>> THEN <<>> ELSE <<ToExpect(st.init[1])>>,
               !.expr = IF st.expr = <<>> THEN <<>> ELSE <<ToExpect(st.expr[1])>>]

ExpectVariant ==
    WhileLoop(ToExpect(full_cond),
              [body EXCEPT !.stmts = IF body.stmts = <<>> THEN <<>>
                                     ELSE [i \in 1..Len(body.stmts) |->
                                              StmtToExpect(body.stmts[i])],
                           !.tail = IF body.tail = <<>> THEN <<>>
                                    ELSE <<ToExpect(body.tail[1])>>])

RECURSIVE SubExprs(_)
SubExprs(e) ==
    {e} \cup UNION {SubExprs(e.sub[i]) : i \in 1..Len(e.sub)}
        \cup UNION {SubExprs(e.args[i]) : i \in 1..Len(e.args)}

\* Every expression of the guard and of the first statement.
AllExprs ==
    SubExprs(full_cond)
    \cup (IF HasFirst
          THEN UNION {SubExprs(First.init[i]) : i \in 1..Len(First.init)}
               \cup UNION {SubExprs(First.expr[i]) : i \in 1..Len(First.expr)}
          ELSE {})

\* One of the two calls of `<v>.pop().unwrap()` has no resolution.
Unresolved(e) ==
    /\ e.kind = "MethodCall"
    /\ \/ e.res = NoDefId
       \/ e.sub[1].kind = "MethodCall" /\ e.sub[1].res = NoDefId

\* C6: the pop-unwrap shape is recognised iff the expression is a method call
\* resolving to Option::unwrap or Option::expect on a method call resolving to
\* Vec::pop on the guard's receiver; writing expect for unwrap changes no
\* outcome, and a bare `v.pop()` yields no Finding.
C6_PopUnwrapShape ==
    (Checked /\ GuardOk) =>
      /\ \A e \in Inspected :
            is_vec_pop_unwrap(e, GuardRecv) <=> PopUnwrapShape(e, GuardRecv)
      /\ (diag # <<>>) <=> (MatchingLocal \/ MatchingArgs # {})
      /\ (diag # <<>>) <=>
            (check(ExpectVariant.cond, ExpectVariant.body, ExpectVariant.span) # <<>>)
      /\ ( /\ HasFirst /\ First.kind = "Local" /\ First.init # <<>>
           /\ SameText(First.init[1], PopOf(GuardRecv, VEC_POP)) )
         => diag = <<>>

C6_Witness ==
    /\ pc = "checked" /\ MatchingLocal
    /\ First.init[1].res = OPTION_EXPECT
    /\ diag # <<>>

\* C7: match_method_call is false for an expression that is no method call or
\* has no resolution; when the guard's is_empty, the body's pop or the body's
\* unwrap is unresolved there is no Finding, and check always completes.
C7_FailClosed ==
    /\ \A e \in AllExprs :
          (e.kind # "MethodCall" \/ e.res = NoDefId) =>
             \A m \in {VEC_POP, VEC_IS_EMPTY, OPTION_UNWRAP, OPTION_EXPECT} :
                ~match_method_call(e, m)
    /\ pc = "start" => ENABLED Check
    /\ Checked =>
          /\ ( /\ full_cond.kind = "Unary"
               /\ full_cond.sub[1].kind = "MethodCall"
               /\ full_cond.sub[1].res = NoDefId ) => diag = <<>>
          /\ \A i \in 1..Len(diag) : \A e \in Reported(diag[i]) : ~Unresolved(e)
          /\ (\A e \in Inspected : Unresolved(e)) => diag = <<>>

C7_Witness ==
    /\ pc = "checked" /\ GuardOk /\ HasFirst
    /\ Inspected # {}
    /\ \A e \in Inspected :
          /\ Unresolved(e)
          /\ e.name = "unwrap" /\ e.sub[1].name = "pop"
          /\ SameText(e.sub[1].sub[1], GuardRecv)
    /\ diag = <<>>

\* C8: a Finding is reached only from a guard that is exactly the negation of
\* a method call resolving to Vec::is_empty and a body with a first
\* statement; otherwise nothing is reported.
C8_TopLevel ==
    Checked =>
      /\ diag # <<>> => (GuardOk /\ body.kind = "Block" /\ HasFirst)
      /\ (~GuardOk \/ ~HasFirst) => (diag = <<>> /\ pc # "fixed")

C8_Witness ==
    /\ pc = "checked" /\ full_cond.kind = "Binary"
    /\ HasFirst /\ First.kind = "Local" /\ First.init # <<>>
    /\ PopUnwrapShape(First.init[1], RecvA)
    /\ diag = <<>>

\* C9: of several matching arguments the first in argument order is the one
\* reported; later matching arguments are neither reported nor edited, and
\* one call of check emits at most one Finding.
C9_FirstArgument ==
    Checked =>
      /\ Len(diag) <= 1
      /\ (FirstIsCall /\ MatchingArgs # {}) =>
            /\ Len(diag) = 1
            /\ diag[1].span = CallArgs[FirstMatchingArg].span
            /\ \A j \in MatchingArgs :
                  j # FirstMatchingArg =>
                     \A p \in 1..Len(diag[1].sugg) :
                        ~Overlap(diag[1].sugg[p][1], CallArgs[j].span)

C9_Witness ==
    /\ pc = "checked" /\ FirstIsCall
    /\ Cardinality(MatchingArgs) > 1
    /\ diag # <<>>

NoneElem == 0
SomeElem == 1
Elems == {NoneElem, SomeElem}
\* What pop returns on an empty vector.
PopNone == -1
\* The value of the variable `element` of the enclosing scope.
OuterElement == 7

VecContents == SeqsUpTo(Elems, MaxVecLen)

Event(op, key, name, vals) == [op |-> op, key |-> key, name |-> name, vals |-> vals]

\* Every vector starts with the same content.
StartState(c) ==
    [store |-> [k \in {Text(RecvA), Text(RecvB), Text(RecvSV)} |-> c],
     env |-> [n \in {"element"} |-> OuterElement],
     trace |-> <<>>,
     status |-> "ok",
     val |-> 0]

Bind(env, n, v) == [m \in DOMAIN env \cup {n} |-> IF m = n THEN v ELSE env[m]]

\* Evaluation of an expression: the receiver first, then the arguments from
\* left to right, then the call.
RECURSIVE Eval(_, _), EvalArgs(_, _)
Eval(e, st) ==
    IF st.status # "ok" THEN st
    ELSE IF e.kind = "Path"
    THEN [st EXCEPT !.val = IF e.name \in DOMAIN st.env THEN st.env[e.name] ELSE 0]
    ELSE IF e.kind = "Call"
    THEN LET s1 == EvalArgs(e.args, st) IN
         IF s1.status # "ok" THEN s1
         ELSE [s1 EXCEPT !.trace = Append(@, Event("call", <<>>, e.sub[1].name, s1.val)),
                         !.val = 0]
    ELSE IF e.kind = "MethodCall"
    THEN LET k == Text(e.sub[1]) IN
         IF e.res \in {VEC_POP, VEC_LEN, VEC_IS_EMPTY} /\ k \in DOMAIN st.store
         THEN LET v == st.store[k] IN
              CASE e.res = VEC_LEN -> [st EXCEPT !.val = Len(v)]
                [] e.res = VEC_IS_EMPTY -> [st EXCEPT !.val = IF v = <<>> THEN 1 ELSE 0]
                [] e.res = VEC_POP ->
                     IF v = <<>> THEN [st EXCEPT !.val = PopNone]
                     ELSE [st EXCEPT !.store[k] = SubSeq(v, 1, Len(v) - 1),
                                     !.trace = Append(@, Event("pop", k, "", <<v[Len(v)]>>)),
                                     !.val = v[Len(v)]]
         ELSE LET s1 == Eval(e.sub[1], st) IN
              IF s1.status # "ok" THEN s1
              ELSE IF e.res \in {OPTION_UNWRAP, OPTION_EXPECT}
              THEN IF s1.val = PopNone THEN [s1 EXCEPT !.status = "panic"] ELSE s1
              ELSE LET s2 == EvalArgs(e.args, s1) IN
                   IF s2.status # "ok" THEN s2
                   ELSE [s2 EXCEPT !.trace = Append(@, Event("call", <<>>, e.name,
                                                            <<s1.val>> \o s2.val)),
                                   !.val = 0]
    ELSE [st EXCEPT !.val = 0]

EvalArgs(args, st) ==
    IF args = <<>> THEN [st EXCEPT !.val = <<>>]
    ELSE LET s1 == Eval(args[1], st) IN
         IF s1.status # "ok" THEN s1
         ELSE LET s2 == EvalArgs(Tail(args), s1) IN
              IF s2.status # "ok" THEN s2
              ELSE [s2 EXCEPT !.val = <<s1.val>> \o s2.val]

PatMatches(p, v) == ~p.refutable \/ v # NoneElem

ExecStmt(stmt, st) ==
    IF st.status # "ok" THEN st
    ELSE IF stmt.kind = "Local" /\ stmt.init # <<>>
    THEN LET s1 == Eval(stmt.init[1], st) IN
         IF s1.status # "ok" THEN s1
         ELSE IF PatMatches(stmt.pat[1], s1.val)
         THEN [s1 EXCEPT !.env = Bind(@, stmt.pat[1].name, s1.val), !.val = 0]
         ELSE [s1 EXCEPT !.status = stmt.els, !.val = 0]
    ELSE IF stmt.kind \in {"Semi", "Expr"}
    THEN [Eval(stmt.expr[1], st) EXCEPT !.val = 0]
    ELSE st

RECURSIVE ExecStmts(_, _)
ExecStmts(ss, st) ==
    IF ss = <<>> THEN st ELSE ExecStmts(Tail(ss), ExecStmt(ss[1], st))

ExecBlock(b, st) ==
    LET s1 == ExecStmts(b.stmts, st) IN
    IF b.tail = <<>> THEN s1 ELSE [Eval(b.tail[1], s1) EXCEPT !.val = 0]

\* What the loop leaves behind: after `break` it ends normally, `return` and
\* a panic end the function.
AfterBody(st) == IF st.status \in {"continue", "break"} THEN [st EXCEPT !.status = "ok"] ELSE st

\* while !recv.is_empty() { b }
RECURSIVE RunWhile(_, _, _, _)
RunWhile(recv, b, st, fuel) ==
    IF fuel = 0 \/ st.store[Text(recv)] = <<>> THEN st
    ELSE LET s1 == ExecBlock(b, st) IN
         IF s1.status \in {"ok", "continue"}
         THEN RunWhile(recv, b, AfterBody(s1), fuel - 1)
         ELSE AfterBody(s1)

\* while let Some(p) = recv.pop() { b }
RECURSIVE RunWhileLet(_, _, _, _, _)
RunWhileLet(p, recv, b, st, fuel) ==
    LET s0 == Eval(PopOf(recv, VEC_POP), st) IN
    IF fuel = 0 \/ s0.val = PopNone \/ ~PatMatches(p, s0.val) THEN [s0 EXCEPT !.val = 0]
    ELSE LET s1 == ExecBlock(b, [s0 EXCEPT !.env = Bind(@, p.name, s0.val), !.val = 0]) IN
         IF s1.status \in {"ok", "continue"}
         THEN RunWhileLet(p, recv, b, [AfterBody(s1) EXCEPT !.env = st.env], fuel - 1)
         ELSE AfterBody(s1)

Observed(st) == [store |-> st.store, trace |-> st.trace, status |-> st.status]

\* The loop as written.
RunOriginal(c) ==
    Observed(RunWhile(GuardRecv, body, StartState(c), Len(c) + 1))

\* The loop after the suggestion: the local statement removed and its pattern
\* bound by the header, or the offending argument replaced by `element`.
RewrittenBody ==
    IF First.kind = "Local" THEN [body EXCEPT !.stmts = Tail(@)]
    ELSE [body EXCEPT !.stmts[1].expr[1].args[FirstMatchingArg] = Path("element")]

RewrittenPat == IF First.kind = "Local" THEN First.pat[1] ELSE Pat("element", FALSE)

RewrittenText == HeaderText(PatText(RewrittenPat), GuardRecv) \o BlockText(RewrittenBody)

RunRewritten(c) ==
    Observed(RunWhileLet(RewrittenPat, GuardRecv, RewrittenBody, StartState(c), Len(c) + 1))

\* C4: the loop with both edits applied performs the same pops, passes the
\* same values to the body in the same order and leaves the same vectors as
\* the original loop, from every initial content.
C4_BehaviourPreserved ==
    pc = "fixed" => \A c \in VecContents : RunOriginal(c) = RunRewritten(c)

\* The rewritten loop that is run is the text the suggestion produces.
RewrittenIsFixed == pc = "fixed" => fixed = RewrittenText

====
